---- MODULE Spec2Model ----
(***************************************************************************)
(* drawCollisionDebug (src/render/draw_collision_debug.js) as a state      *)
(* machine.  One invocation renders, for one layer and a list of tile      *)
(* coordinates, the collision boxes (one LINES draw call per tile) and     *)
(* the collision circles (batched TRIANGLES draw calls, at most            *)
(* maxQuadsPerDrawCall quads per call).  The loops of the function are     *)
(* unrolled into steps so that every intermediate value of its locals is   *)
(* a state of the model.                                                   *)
(*                                                                         *)
(* Typed arrays and matrices are functions over 0..n-1, indexed as in the  *)
(* source.  A nullable value is the empty sequence (Null) or a one-element *)
(* sequence holding the value.                                             *)
(***************************************************************************)
EXTENDS Integers, Sequences, FiniteSets, TLC

\* ------------------------------------------------------------------ bounds

\* the longest coords list of an invocation
MaxTiles == 2
\* the longest collision-circle array of a tile
MaxCircles == 130
\* the number of invocations on the layer
MaxFrames == 2

\* ------------------------------------------------------- program constants

maxQuadsPerDrawCall == 64
maxVerticesPerDrawCall == maxQuadsPerDrawCall * 4
maxTrianglesPerDrawCall == maxQuadsPerDrawCall * 2

\* number of float32 entries of quadProperties
QuadPropertiesLength == maxQuadsPerDrawCall * 4

\* ---------------------------------------------------------------- values

Null == <<>>
Some(x) == <<x>>
Value(o) == o[1]

\* the null check is left out
TruthyAlways(o) == TRUE

\* JavaScript truthiness of a nullable object reference (!bucket, !buffers)
Truthy(o) == o # Null

Min(a, b) == IF a < b THEN a ELSE b

ToUint16(x) == x % 65536
ToInt16(x) == ((x + 32768) % 65536) - 32768

\* ---------------------------------------------------------------- mat4

\* mat4.create(): the identity, column-major
Mat4Create == [k \in 0..15 |-> IF k % 5 = 0 THEN 1 ELSE 0]

\* mat4.mul(out, a, b): out = a * b, column-major storage
Mat4Mul(a, b) ==
    [k \in 0..15 |->
        LET row == k % 4
            col == k \div 4
        IN  a[row] * b[col * 4] + a[4 + row] * b[col * 4 + 1]
            + a[8 + row] * b[col * 4 + 2] + a[12 + row] * b[col * 4 + 3]]

\* mat4.translate(out, a, v)
Mat4Translate(a, v) ==
    [k \in 0..15 |->
        IF k >= 12
        THEN a[k - 12] * v[1] + a[k - 8] * v[2] + a[k - 4] * v[3] + a[k]
        ELSE a[k]]

\* an affine matrix with the 2x2 block ((a, b), (c, 1)) and x-offset d
Mat(a, b, c, d) ==
    [k \in 0..15 |->
        CASE k = 0 -> a
          [] k = 4 -> b
          [] k = 1 -> c
          [] k = 12 -> d
          [] k \in {5, 10, 15} -> 1
          [] OTHER -> 0]

\* painter.translatePosMatrix(matrix, tile, translate, translateAnchor):
\* the matrix itself for a zero offset, else a new matrix translated by the
\* offset, taken in viewport space (rotated back by the camera angle, here
\* in quarter turns) or in map space
translatePosMatrix(transform, matrix, translate, translateAnchor) ==
    IF translate[1] = 0 /\ translate[2] = 0
    THEN matrix
    ELSE LET rot == translateAnchor = "viewport" /\ transform.quarterTurns = 1
             v == IF rot
                  THEN <<translate[2], -translate[1], 0>>
                  ELSE <<translate[1], translate[2], 0>>
         IN  Mat4Translate(matrix, v)

\* -------------------------------------------------------------- buffers

\* a reference to a GPU buffer object: who owns it, which one, which instance
BufferRef(owner, name, id) == [owner |-> owner, name |-> name, id |-> id]

\* SegmentVector.simpleSegment(vertexOffset, primitiveOffset, vertexLength,
\* primitiveLength)
simpleSegment(vertexOffset, primitiveOffset, vertexLength, primitiveLength) ==
    [vertexOffset |-> vertexOffset, primitiveOffset |-> primitiveOffset,
     vertexLength |-> vertexLength, primitiveLength |-> primitiveLength]

\* new StructArrayLayout...(); resize(n); _trim(): n zeroed elements of c
\* components each
StructArray(n, c) == [k \in 0..(n * c - 1) |-> 0]

\* a store into a typed array: an index outside the array is ignored
Store(array, idx, val) ==
    IF idx \in DOMAIN array THEN [array EXCEPT ![idx] = val] ELSE array

\* what a read outside a typed array yields
Undefined == -1

\* ------------------------------------------------- quad template (56..92)

\* the body of the vertex loop for one i: the second store is made to the
\* array the first store leaves
VertexStep(array, i) ==
    CHOOSE out \in {Store(first, i * 2 + 1, ToInt16(i)) :
                        first \in {Store(array, i * 2 + 0, ToInt16(i))}} : TRUE

\* the iterations lo <= i < hi of the vertex loop, in order: the second half
\* runs on the array the first half leaves
RECURSIVE VertexLoop(_, _, _)
VertexLoop(array, lo, hi) ==
    IF lo >= hi THEN array
    ELSE IF hi - lo = 1 THEN VertexStep(array, lo)
    ELSE LET mid == (lo + hi) \div 2
         IN  CHOOSE out \in {VertexLoop(first, mid, hi) :
                                 first \in {VertexLoop(array, lo, mid)}} : TRUE

\* six stores for every triangle, three entries apart
IndexStoresPerTriangle(i) ==
    LET idx == i * 3
    IN  << <<idx + 0, i * 4 + 0>>, <<idx + 1, i * 4 + 1>>, <<idx + 2, i * 4 + 2>>,
           <<idx + 3, i * 4 + 2>>, <<idx + 4, i * 4 + 3>>, <<idx + 5, i * 4 + 0>> >>

\* the positions and values the index loop stores for one i
IndexStores(i) ==
    LET idx == i * 6
    IN  << <<idx + 0, i * 4 + 0>>, <<idx + 1, i * 4 + 1>>, <<idx + 2, i * 4 + 2>>,
           <<idx + 3, i * 4 + 2>>, <<idx + 4, i * 4 + 3>>, <<idx + 5, i * 4 + 0>> >>

\* the stores from the k-th on, in order, each made to the array the one
\* before it leaves
RECURSIVE StoreAll(_, _, _)
StoreAll(array, stores, k) ==
    IF k > Len(stores)
    THEN array
    ELSE CHOOSE out \in {StoreAll(next, stores, k + 1) :
                             next \in {Store(array, stores[k][1], ToUint16(stores[k][2]))}} :
             TRUE

\* the body of the index loop for one i
IndexStep(array, i) == StoreAll(array, IndexStores(i), 1)

\* the iterations lo <= i < hi of the index loop, in order: the second half
\* runs on the array the first half leaves
RECURSIVE IndexLoop(_, _, _)
IndexLoop(array, lo, hi) ==
    IF lo >= hi THEN array
    ELSE IF hi - lo = 1 THEN IndexStep(array, lo)
    ELSE LET mid == (lo + hi) \div 2
         IN  CHOOSE out \in {IndexLoop(first, mid, hi) :
                                 first \in {IndexLoop(array, lo, mid)}} : TRUE

\* the array handed to context.createVertexBuffer
QuadVertexArray ==
    VertexLoop(StructArray(maxVerticesPerDrawCall, 2), 0, maxVerticesPerDrawCall)

\* the array handed to context.createIndexBuffer
QuadIndexArray ==
    IndexLoop(StructArray(maxTrianglesPerDrawCall, 3), 0, maxTrianglesPerDrawCall)

\* ---------------------------------------------------------------- inputs

\* coord.posMatrix of tile t
PosMatrix(t) == Mat(t + 1, 0, t, 2)

OverscaledTileID(t) == [id |-> t, posMatrix |-> PosMatrix(t)]

\* a bucket's pre-built collision-box buffers, text or icon
CollisionBoxBuffers(t, kind) ==
    LET boxes == IF kind = "text" THEN t ELSE t + 1
    IN  [layoutVertexBuffer |-> BufferRef(kind, "layoutVertexBuffer", t),
         indexBuffer |-> BufferRef(kind, "indexBuffer", t),
         segments |-> simpleSegment(0, 0, boxes * 4, boxes * 4),
         collisionVertexBuffer |-> BufferRef(kind, "collisionVertexBuffer", t)]

\* the float at position k of tile t's circle array: every float is distinct
CircleFloat(t, k) == t * 1000 + k + 1

\* arr.float32[k]
Float32(arr, k) ==
    IF k \in DOMAIN arr.float32 THEN arr.float32[k] ELSE Undefined

\* a collision-circle array of n circles, four floats each
CollisionCircleArray(t, n) ==
    [id |-> t, length |-> n, float32 |-> [k \in 0..(n * 4 - 1) |-> CircleFloat(t, k)]]

\* the symbol bucket of tile t
SymbolBucket(t, text, icon, n) ==
    [textCollisionBox |-> IF text THEN Some(CollisionBoxBuffers(t, "text")) ELSE Null,
     iconCollisionBox |-> IF icon THEN Some(CollisionBoxBuffers(t, "icon")) ELSE Null,
     collisionCircleArrayTemp |-> CollisionCircleArray(t, n),
     placementInvProjMatrix |-> Mat(1, t, 0, 1),
     placementViewportMatrix |-> Mat(2, 0, 1, t)]

\* painter.transform, as the caller hands it over
Transform == [glCoordMatrix |-> Mat(1, 1, 1, 3), zoom |-> 3, quarterTurns |-> 1]

\* the translate and its anchor: none, or along an axis in either space
Translations ==
    {<<(<<0, 0>>), "map">>, <<(<<3, 0>>), "viewport">>, <<(<<0, 5>>), "map">>}

\* the kinds of tile of the many-tile inputs: no bucket, or a bucket with or
\* without its box buffers and with an empty, a partial or an overfull batch
TileKinds ==
    {<<FALSE, FALSE, FALSE, 0>>, <<TRUE, TRUE, FALSE, 0>>, <<TRUE, FALSE, TRUE, 1>>,
     <<TRUE, FALSE, FALSE, 2>>, <<TRUE, TRUE, TRUE, maxQuadsPerDrawCall + 1>>}

BucketOf(t, kind) ==
    IF kind[1] THEN Some(SymbolBucket(t, kind[2], kind[3], kind[4])) ELSE Null

Coords(k) == [t \in 1..k |-> OverscaledTileID(t)]

\* one tile with every circle count up to MaxCircles
DeepInputs ==
    {[painter |-> [transform |-> Transform],
      coords |-> Coords(1),
      sourceCache |-> [t \in 1..1 |-> Some(SymbolBucket(t, TRUE, TRUE, n))],
      translate |-> <<0, 0>>, translateAnchor |-> "map", isText |-> TRUE] :
        n \in 0..MaxCircles}

\* up to MaxTiles tiles of every kind, with every translation and mode
WideInputs ==
    UNION {
        {[painter |-> [transform |-> Transform],
          coords |-> Coords(k),
          sourceCache |-> [t \in 1..k |-> BucketOf(t, kinds[t])],
          translate |-> tr[1], translateAnchor |-> tr[2], isText |-> tx] :
            kinds \in [1..k -> TileKinds], tr \in Translations,
            tx \in BOOLEAN} : k \in 0..MaxTiles}

Inputs == DeepInputs \cup WideInputs

\* ----------------------------------------------------------------- state

VARIABLES
    pc,                 \* where the invocation stands; "idle" between invocations
    frame,              \* the number of invocations started
    layer,              \* the style layer object: its own properties
    painter,            \* argument: the painter, of which the transform is read
    coords,             \* argument: the tile coordinates
    sourceCache,        \* argument: tile id -> the tile's bucket for the layer
    translate,          \* argument
    translateAnchor,    \* argument
    isText,             \* argument
    i,                  \* the tile loops' index
    quadProperties,     \* the scratch Float32Array
    batchTransform,
    batchInvTransform,
    batchQuadIdx,
    quadOffset,
    batchSize,
    qIdx,
    draws,              \* the draw calls of this invocation, in order
    created,            \* how often each template buffer was created
    allocated,          \* how many scratch arrays were allocated
    copied,             \* circles copied since the tile's previous flush
    reprojected,        \* mat4.mul calls of this invocation
    turns               \* turns of the scan loop taken for the tile

args == <<painter, coords, sourceCache, translate, translateAnchor, isText>>
locals == <<batchTransform, batchInvTransform, batchQuadIdx, quadOffset, batchSize, qIdx>>
history == <<copied, reprojected, turns>>
vars == <<pc, frame, layer, args, i, quadProperties, locals, draws, created,
          allocated, history>>

\* sourceCache.getTile(coord).getBucket(layer)
getBucket(coord) == sourceCache[coord.id]

\* translate[0] !== 0 || translate[1] !== 0
HasTranslate == translate[1] # 0 \/ translate[2] # 0

\* the length check is left out
IsEmptyNever(arr) == FALSE

\* the circle loop skips, as the box loop does, a tile without the buffer
\* set the mode selects
IsEmptyOrWithoutBoxes(arr) ==
    \/ arr.length = 0
    \/ (IF isText
        THEN Value(sourceCache[arr.id]).textCollisionBox
        ELSE Value(sourceCache[arr.id]).iconCollisionBox) = Null

\* !arr.length
IsEmpty(arr) == arr.length = 0

\* the presence check never finds the property
HasPropertyNever(obj, name) == FALSE

\* name in obj
HasProperty(obj, name) == name \in DOMAIN obj

\* obj.name = val
SetProperty(obj, name, val) ==
    [k \in DOMAIN obj \cup {name} |-> IF k = name THEN val ELSE obj[k]]

\* the mode selects the other buffer set
SelectBuffersSwapped(bucket) ==
    IF isText THEN bucket.iconCollisionBox ELSE bucket.textCollisionBox

\* isText ? bucket.textCollisionBox : bucket.iconCollisionBox
SelectBuffers(bucket) ==
    IF isText THEN bucket.textCollisionBox ELSE bucket.iconCollisionBox

\* the matrix a tile is drawn with (32..35, 113..116)
TilePosMatrix(coord) ==
    IF HasTranslate
    THEN translatePosMatrix(painter.transform, coord.posMatrix, translate,
                            translateAnchor)
    ELSE coord.posMatrix

\* the batch takes every circle that is left, whatever room it has
BatchSizeUnbounded(quadsLeft, quadSpaceInBatch) == quadsLeft

\* the batch takes as many circles as it has room for, whatever is left
BatchSizeOfSpace(quadsLeft, quadSpaceInBatch) == quadSpaceInBatch

\* Math.min(quadsLeft, quadSpaceInBatch)
BatchSize(quadsLeft, quadSpaceInBatch) == Min(quadsLeft, quadSpaceInBatch)

Init ==
    /\ pc = "idle"
    /\ frame = 0
    /\ layer = [id |-> "layer"]
    /\ painter = [transform |-> Transform]
    /\ coords = <<>>
    /\ sourceCache = <<>>
    /\ translate = <<0, 0>>
    /\ translateAnchor = "map"
    /\ isText = FALSE
    /\ i = 0
    /\ quadProperties = <<>>
    /\ batchTransform = Mat4Create
    /\ batchInvTransform = Mat4Create
    /\ batchQuadIdx = 0
    /\ quadOffset = 0
    /\ batchSize = 0
    /\ qIdx = 0
    /\ draws = <<>>
    /\ created = [vertexBuffer2 |-> 0, indexBuffer2 |-> 0]
    /\ allocated = 0
    /\ copied = 0
    /\ reprojected = 0
    /\ turns = 0

\* drawCollisionDebug is called (20..25)
Call ==
    /\ pc = "idle"
    /\ frame < MaxFrames
    /\ \E in \in Inputs :
        /\ painter' = in.painter
        /\ coords' = in.coords
        /\ sourceCache' = in.sourceCache
        /\ translate' = in.translate
        /\ translateAnchor' = in.translateAnchor
        /\ isText' = in.isText
    /\ frame' = frame + 1
    /\ pc' = "box"
    /\ i' = 0
    /\ UNCHANGED <<layer, quadProperties, locals, draws, created, allocated, history>>

\* the box loop runs over coords from the last tile to the first
BoxDrawReversed(coord, posMatrix, buffers) ==
    [prim |-> "LINES", site |-> "box", tile |-> Len(coords) - 1 - i,
     matrix |-> posMatrix, invMatrix |-> Mat4Create, quadProperties |-> <<>>,
     layoutVertexBuffer |-> buffers.layoutVertexBuffer,
     indexBuffer |-> buffers.indexBuffer,
     segments |-> buffers.segments,
     collisionVertexBuffer |-> Some(buffers.collisionVertexBuffer),
     copied |-> 0]

\* program.draw(context, gl.LINES, ...) of the box loop (36..46)
BoxDraw(coord, posMatrix, buffers) ==
    [prim |-> "LINES", site |-> "box", tile |-> i,
     matrix |-> posMatrix, invMatrix |-> Mat4Create, quadProperties |-> <<>>,
     layoutVertexBuffer |-> buffers.layoutVertexBuffer,
     indexBuffer |-> buffers.indexBuffer,
     segments |-> buffers.segments,
     collisionVertexBuffer |-> Some(buffers.collisionVertexBuffer),
     copied |-> 0]

\* one iteration of the box loop (25..47)
BoxTile ==
    /\ pc = "box"
    /\ i < Len(coords)
    /\ LET coord == coords[i + 1]
           bucket == getBucket(coord)
           continue == /\ pc' = pc
                       /\ draws' = draws
       IN  /\ i' = i + 1
           /\ IF ~Truthy(bucket)
              THEN continue
              ELSE IF bucket = Null
              THEN pc' = "thrown" /\ draws' = draws
              ELSE LET buffers == SelectBuffers(Value(bucket))
                   IN  IF ~Truthy(buffers)
                       THEN continue
                       ELSE IF buffers = Null
                       THEN pc' = "thrown" /\ draws' = draws
                       ELSE /\ draws' = Append(draws,
                                    BoxDraw(coord, TilePosMatrix(coord), Value(buffers)))
                            /\ pc' = pc
    /\ UNCHANGED <<frame, layer, args, quadProperties, locals, created, allocated,
                   history>>

\* context.createVertexBuffer / context.createIndexBuffer: a new buffer object
createBuffer(name, array) ==
    [ref |-> BufferRef("layer", name, created[name] + 1), array |-> array]

\* the box loop ends; the quad template is created where the layer has none,
\* and the scratch array is allocated (47..100)
Template ==
    /\ pc = "box"
    /\ i = Len(coords)
    /\ LET noVertex == ~HasProperty(layer, "vertexBuffer2")
           noIndex == ~HasProperty(layer, "indexBuffer2")
           layer1 == IF noVertex
                     THEN SetProperty(layer, "vertexBuffer2",
                              createBuffer("vertexBuffer2", QuadVertexArray))
                     ELSE layer
           layer2 == IF noIndex
                     THEN SetProperty(layer1, "indexBuffer2",
                              createBuffer("indexBuffer2", QuadIndexArray))
                     ELSE layer1
       IN  /\ layer' = layer2
           /\ created' = [vertexBuffer2 |-> created.vertexBuffer2 + (IF noVertex THEN 1 ELSE 0),
                          indexBuffer2 |-> created.indexBuffer2 + (IF noIndex THEN 1 ELSE 0)]
    /\ quadProperties' = [k \in 0..(QuadPropertiesLength - 1) |-> 0]
    /\ allocated' = allocated + 1
    /\ i' = 0
    /\ pc' = "circles"
    /\ UNCHANGED <<frame, args, locals, draws, history>>

\* program2.draw(context, gl.TRIANGLES, ...) of a batch (147..171, 180..204):
\* the uniforms hold the transforms and the whole scratch array
CircleDraw(site) ==
    [prim |-> "TRIANGLES", site |-> site, tile |-> i,
     matrix |-> batchTransform, invMatrix |-> batchInvTransform,
     quadProperties |-> quadProperties,
     layoutVertexBuffer |-> layer.vertexBuffer2.ref,
     indexBuffer |-> layer.indexBuffer2.ref,
     segments |-> simpleSegment(0, 0, batchQuadIdx * 4, batchQuadIdx * 2),
     collisionVertexBuffer |-> Null,
     copied |-> copied]

\* the camera matrix is translated before it enters the product
ReprojectTranslated(bucket) ==
    LET first == Mat4Mul(bucket.placementInvProjMatrix,
                         translatePosMatrix(painter.transform,
                                            painter.transform.glCoordMatrix,
                                            translate, translateAnchor))
    IN  Mat4Mul(first, bucket.placementViewportMatrix)

\* the three factors are multiplied in the opposite order
ReprojectReversed(bucket) ==
    LET first == Mat4Mul(bucket.placementViewportMatrix, painter.transform.glCoordMatrix)
    IN  Mat4Mul(first, bucket.placementInvProjMatrix)

\* batchInvTransform of a bucket (120..124)
Reproject(bucket) ==
    LET first == Mat4Mul(bucket.placementInvProjMatrix, painter.transform.glCoordMatrix)
    IN  Mat4Mul(first, bucket.placementViewportMatrix)

\* the first product is written over the bucket's own matrix
ReprojectedInPlace(bucket) ==
    [bucket EXCEPT !.placementInvProjMatrix =
        Mat4Mul(bucket.placementInvProjMatrix, painter.transform.glCoordMatrix)]

\* the bucket as the two mat4.mul calls leave it: their out parameter is the
\* matrix mat4.create() returned, no matrix of the bucket (120..124)
Reprojected(bucket) == bucket

\* the batch index and the scan cursor are carried over from the last tile
BeginScanStale == UNCHANGED <<batchQuadIdx, quadOffset>>

\* let batchQuadIdx = 0; let quadOffset = 0 (126..127)
BeginScan ==
    /\ batchQuadIdx' = 0
    /\ quadOffset' = 0

\* the head of one iteration of the circle loop (102..127)
CircleTile ==
    /\ pc = "circles"
    /\ i < Len(coords)
    /\ LET coord == coords[i + 1]
           bucket == getBucket(coord)
           continue == /\ pc' = pc
                       /\ i' = i + 1
                       /\ UNCHANGED <<sourceCache, locals, history>>
       IN  IF ~Truthy(bucket)
           THEN continue
           ELSE IF bucket = Null
           THEN pc' = "thrown" /\ UNCHANGED <<sourceCache, i, locals, history>>
           ELSE LET arr == Value(bucket).collisionCircleArrayTemp
                IN  IF IsEmpty(arr)
                    THEN continue
                    ELSE /\ batchTransform' = TilePosMatrix(coord)
                         /\ batchInvTransform' = Reproject(Value(bucket))
                         /\ sourceCache' = [sourceCache EXCEPT
                                ![coord.id] = Some(Reprojected(Value(bucket)))]
                         /\ reprojected' = reprojected + 2
                         /\ BeginScan
                         /\ copied' = 0
                         /\ turns' = 0
                         /\ pc' = "scan"
                         /\ UNCHANGED <<i, batchSize, qIdx>>
    /\ UNCHANGED <<frame, layer, painter, coords, translate, translateAnchor, isText,
                   quadProperties, draws, created, allocated>>

\* the circle array of the tile the circle loop is at
Arr == Value(getBucket(coords[i + 1])).collisionCircleArrayTemp

\* the scan loop takes another turn (129..135)
Scan ==
    /\ pc = "scan"
    /\ quadOffset < Arr.length
    /\ LET quadsLeft == Arr.length - quadOffset
           quadSpaceInBatch == maxQuadsPerDrawCall - batchQuadIdx
       IN  batchSize' = BatchSize(quadsLeft, quadSpaceInBatch)
    /\ qIdx' = quadOffset
    /\ turns' = turns + 1
    /\ pc' = "copy"
    /\ UNCHANGED <<frame, layer, args, i, quadProperties, batchTransform,
                   batchInvTransform, batchQuadIdx, quadOffset, draws, created,
                   allocated, copied, reprojected>>

\* the circle is read at the batch's own index, not at the scan cursor
CopyQuadSameIndex(array, dst, arr, src) ==
    LET s0 == Store(array, dst * 4 + 0, Float32(arr, dst * 4 + 0))
        s1 == Store(s0, dst * 4 + 1, Float32(arr, dst * 4 + 1))
        s2 == Store(s1, dst * 4 + 2, Float32(arr, dst * 4 + 2))
    IN  Store(s2, dst * 4 + 3, Float32(arr, dst * 4 + 3))

\* the rest of the scratch array is cleared with every circle copied
CopyQuadClearing(array, dst, arr, src) ==
    [k \in DOMAIN array |->
        IF k \in (dst * 4)..(dst * 4 + 3)
        THEN Float32(arr, src * 4 + (k - dst * 4))
        ELSE IF k > dst * 4 + 3 THEN 0 ELSE array[k]]

\* the four stores of one circle (136..139)
CopyQuad(array, dst, arr, src) ==
    LET s0 == Store(array, dst * 4 + 0, Float32(arr, src * 4 + 0))
        s1 == Store(s0, dst * 4 + 1, Float32(arr, src * 4 + 1))
        s2 == Store(s1, dst * 4 + 2, Float32(arr, src * 4 + 2))
    IN  Store(s2, dst * 4 + 3, Float32(arr, src * 4 + 3))

\* one circle is copied into the scratch array (135..141)
Copy ==
    /\ pc = "copy"
    /\ qIdx < quadOffset + batchSize
    /\ quadProperties' = CopyQuad(quadProperties, batchQuadIdx, Arr, qIdx)
    /\ batchQuadIdx' = batchQuadIdx + 1
    /\ qIdx' = qIdx + 1
    /\ copied' = copied + 1
    /\ UNCHANGED <<pc, frame, layer, args, i, batchTransform, batchInvTransform,
                   quadOffset, batchSize, draws, created, allocated, reprojected,
                   turns>>

\* the batch counts as full only past its capacity
BatchFullPastCapacity == batchQuadIdx > maxQuadsPerDrawCall

\* batchQuadIdx === maxQuadsPerDrawCall
BatchFull == batchQuadIdx = maxQuadsPerDrawCall

\* the copy loop ends; a full batch is drawn (141..175)
EndCopy ==
    /\ pc = "copy"
    /\ qIdx >= quadOffset + batchSize
    /\ quadOffset' = quadOffset + batchSize
    /\ IF BatchFull
       THEN /\ draws' = Append(draws, CircleDraw("full"))
            /\ batchQuadIdx' = 0
            /\ copied' = 0
       ELSE UNCHANGED <<draws, batchQuadIdx, copied>>
    /\ pc' = "scan"
    /\ UNCHANGED <<frame, layer, args, i, quadProperties, batchTransform,
                   batchInvTransform, batchSize, qIdx, created, allocated,
                   reprojected, turns>>

\* the leftover batch is drawn whether or not it holds a circle
HasLeftoverAlways == TRUE

\* if (batchQuadIdx)
HasLeftover == batchQuadIdx # 0

\* the scan loop ends; the leftover batch is drawn (175..206)
Leftover ==
    /\ pc = "scan"
    /\ quadOffset >= Arr.length
    /\ IF HasLeftover
       THEN /\ draws' = Append(draws, CircleDraw("leftover"))
            /\ copied' = 0
       ELSE UNCHANGED <<draws, copied>>
    /\ i' = i + 1
    /\ pc' = "circles"
    /\ UNCHANGED <<frame, layer, args, quadProperties, locals, created, allocated,
                   reprojected, turns>>

\* the circle loop ends and the function returns: its arguments and locals
\* are gone (102, 207)
Return ==
    /\ pc = "circles"
    /\ i = Len(coords)
    /\ pc' = "idle"
    /\ painter' = [transform |-> Transform]
    /\ coords' = <<>>
    /\ sourceCache' = <<>>
    /\ translate' = <<0, 0>>
    /\ translateAnchor' = "map"
    /\ isText' = FALSE
    /\ i' = 0
    /\ quadProperties' = <<>>
    /\ batchTransform' = Mat4Create
    /\ batchInvTransform' = Mat4Create
    /\ batchQuadIdx' = 0
    /\ quadOffset' = 0
    /\ batchSize' = 0
    /\ qIdx' = 0
    /\ draws' = <<>>
    /\ copied' = 0
    /\ reprojected' = 0
    /\ turns' = 0
    /\ UNCHANGED <<frame, layer, created, allocated>>

Next ==
    \/ Call
    \/ BoxTile
    \/ Template
    \/ CircleTile
    \/ Scan
    \/ Copy
    \/ EndCopy
    \/ Leftover
    \/ Return

Spec == Init /\ [][Next]_vars

\* a step of an invocation under way: the function is synchronous, so once
\* called it goes on for as long as it has a next step
Running ==
    \/ BoxTile
    \/ Template
    \/ CircleTile
    \/ Scan
    \/ Copy
    \/ EndCopy
    \/ Leftover
    \/ Return

\* the inputs of the runs that are followed to their end: one tile with a
\* circle count at or next to a multiple of the batch capacity, and the tile
\* lists of every kind under no translate
FairInputs ==
    {in \in DeepInputs :
        in.sourceCache[1][1].collisionCircleArrayTemp.length
            \in {0, 1, maxQuadsPerDrawCall - 1, maxQuadsPerDrawCall,
                 maxQuadsPerDrawCall + 1, 2 * maxQuadsPerDrawCall, MaxCircles}}
    \cup {in \in WideInputs : in.translate = <<0, 0>> /\ in.isText}

\* drawCollisionDebug is called with one of these inputs (20..25)
FairCall ==
    /\ pc = "idle"
    /\ frame < MaxFrames
    /\ \E in \in FairInputs :
        /\ painter' = in.painter
        /\ coords' = in.coords
        /\ sourceCache' = in.sourceCache
        /\ translate' = in.translate
        /\ translateAnchor' = in.translateAnchor
        /\ isText' = in.isText
    /\ frame' = frame + 1
    /\ pc' = "box"
    /\ i' = 0
    /\ UNCHANGED <<layer, quadProperties, locals, draws, created, allocated, history>>

FairNext == FairCall \/ Running

FairSpec == Init /\ [][FairNext]_vars /\ WF_vars(Running)

\* ------------------------------------------------------------ properties

\* the tiles of coords by their loop index
TileIndexes == 0..(Len(coords) - 1)

BucketAt(t) == getBucket(coords[t + 1])
HasBucket(t) == BucketAt(t) # Null
CirclesAt(t) == Value(BucketAt(t)).collisionCircleArrayTemp

\* the box loop is past tile t
BoxPassed(t) == (pc = "box" /\ t < i) \/ pc \in {"circles", "scan", "copy"}

\* the circle loop is past tile t
CirclesPassed(t) == pc \in {"circles", "scan", "copy"} /\ t < i

\* a draw call is issued only on a step that ends a copy loop or a scan
\* loop: the step leaves the invocation between two batches or two tiles
BetweenBatches == pc \in {"scan", "circles"}

\* every draw call of the invocation is issued
Done == pc = "circles" /\ i = Len(coords)

IsCircleDrawOf(d, t) == d.prim = "TRIANGLES" /\ d.tile = t
IsBoxDrawOf(d, t) == d.prim = "LINES" /\ d.tile = t

\* the circle draw calls of tile t, in order
CircleDraws(t) == SelectSeq(draws, LAMBDA d : IsCircleDrawOf(d, t))

\* the box draw calls of tile t, in order
BoxDraws(t) == SelectSeq(draws, LAMBDA d : IsBoxDrawOf(d, t))

DrawIndexes == 1..Len(draws)

CeilDiv(n, m) == (n + m - 1) \div m

\* the number of quads a circle draw call draws
QuadsDrawn(d) == d.segments.vertexLength \div 4

RECURSIVE DrawnFloats(_, _)
DrawnFloats(ds, k) ==
    IF k > Len(ds)
    THEN <<>>
    ELSE [j \in 1..(QuadsDrawn(ds[k]) * 4) |-> ds[k].quadProperties[j - 1]]
         \o DrawnFloats(ds, k + 1)

C3_BatchBounds ==
    /\ batchQuadIdx \in 0..64
    /\ \A k \in DrawIndexes :
          draws[k].prim = "TRIANGLES" =>
              /\ draws[k].copied \in 1..64
              /\ draws[k].segments
                    = simpleSegment(0, 0, draws[k].copied * 4, draws[k].copied * 2)
    /\ (pc = "copy" /\ qIdx < quadOffset + batchSize) => batchQuadIdx * 4 + 3 < 64 * 4

\* a full batch of 64 has been drawn and the next circle is about to be stored
C3_Witness ==
    /\ pc = "copy"
    /\ qIdx < quadOffset + batchSize
    /\ \E k \in DrawIndexes : draws[k].prim = "TRIANGLES" /\ draws[k].copied = 64

\* batchInvTransform as the three matrices give it, whatever the translate
InvTransformOf(bucket) ==
    Mat4Mul(Mat4Mul(bucket.placementInvProjMatrix, Transform.glCoordMatrix),
            bucket.placementViewportMatrix)

\* the box draw calls are issued with a matrix other than coord.posMatrix
\* when the translate is not zero
BoxPathTranslated ==
    \A k \in DrawIndexes :
        (draws[k].prim = "LINES" /\ translate # <<0, 0>>) =>
            draws[k].matrix # coords[draws[k].tile + 1].posMatrix

\* C4 as stated: a translate changes the matrix of the box path, and every
\* circle draw call is issued with the batchTransform and batchInvTransform
\* of a zero translate: coord.posMatrix and the product of the three matrices.
C4_TranslateNeverReachesCircles ==
    /\ BoxPathTranslated
    /\ \A k \in DrawIndexes :
          draws[k].prim = "TRIANGLES" =>
              /\ draws[k].matrix = coords[draws[k].tile + 1].posMatrix
              /\ draws[k].invMatrix = InvTransformOf(Value(BucketAt(draws[k].tile)))

\* C4 amended: a translate changes the matrix of the box path and, in the
\* same way, the batchTransform of the circle path (coord.posMatrix for a
\* zero translate, translatePosMatrix(coord.posMatrix, ...) otherwise); only
\* batchInvTransform is the same whether the translate is zero or not.
C4_TranslateReachesBatchTransformOnly ==
    /\ BoxPathTranslated
    /\ \A k \in DrawIndexes :
          draws[k].prim = "TRIANGLES" =>
              LET coord == coords[draws[k].tile + 1]
              IN  /\ draws[k].matrix =
                        IF translate = <<0, 0>>
                        THEN coord.posMatrix
                        ELSE translatePosMatrix(Transform, coord.posMatrix,
                                                translate, translateAnchor)
                  /\ (translate # <<0, 0>>) => draws[k].matrix # coord.posMatrix
                  /\ draws[k].invMatrix = InvTransformOf(Value(BucketAt(draws[k].tile)))

\* a box and a circle draw call are issued under a viewport translate
C4_Witness ==
    /\ translate # <<0, 0>>
    /\ translateAnchor = "viewport"
    /\ \E k \in DrawIndexes : draws[k].prim = "TRIANGLES"
    /\ \E k \in DrawIndexes : draws[k].prim = "LINES"

\* v is one of the floats of the circle array arr
IsFloatOf(v, arr) ==
    LET k == v - CircleFloat(arr.id, 0)
    IN  k \in 0..(arr.length * 4 - 1) /\ v = CircleFloat(arr.id, k)

RECURSIVE SumQuads(_, _)
SumQuads(ds, k) == IF k > Len(ds) THEN 0 ELSE QuadsDrawn(ds[k]) + SumQuads(ds, k + 1)

\* C5: a tile's scan starts with batchQuadIdx = 0 and quadOffset = 0; the
\* region a circle draw call draws holds circles of the one tile it is issued
\* for, with that tile's batchTransform and batchInvTransform; between two
\* tiles no copied circle is left undrawn, and every circle of a tile the
\* loop is past has been drawn.
\* (The draw calls are read off the log wherever a step may have added to it.)
C5_NoCrossTileBatch ==
    /\ (pc = "scan" /\ turns = 0) => (batchQuadIdx = 0 /\ quadOffset = 0)
    /\ \A k \in DrawIndexes :
          (BetweenBatches /\ draws[k].prim = "TRIANGLES") =>
              LET t == draws[k].tile
              IN  /\ HasBucket(t)
                  /\ \A j \in 0..(QuadsDrawn(draws[k]) * 4 - 1) :
                        IsFloatOf(draws[k].quadProperties[j], CirclesAt(t))
                  /\ draws[k].matrix = TilePosMatrix(coords[t + 1])
                  /\ draws[k].invMatrix = InvTransformOf(Value(BucketAt(t)))
    /\ (pc = "circles") => copied = 0
    /\ \A t \in TileIndexes :
          (CirclesPassed(t) /\ HasBucket(t)) =>
              SumQuads(CircleDraws(t), 1) = CirclesAt(t).length

\* two tiles, each ending in a partial batch, are both done
C5_Witness ==
    /\ Done
    /\ Len(coords) = 2
    /\ HasBucket(0) /\ CirclesAt(0).length = 65
    /\ HasBucket(1) /\ CirclesAt(1).length = 65
    /\ Len(CircleDraws(0)) = 2
    /\ Len(CircleDraws(1)) = 2

\* a template buffer the layer has is the one it has after the step
TemplateKept ==
    /\ "vertexBuffer2" \in DOMAIN layer =>
          ("vertexBuffer2" \in DOMAIN layer' /\ layer'.vertexBuffer2 = layer.vertexBuffer2)
    /\ "indexBuffer2" \in DOMAIN layer =>
          ("indexBuffer2" \in DOMAIN layer' /\ layer'.indexBuffer2 = layer.indexBuffer2)

\* each template buffer is created at most once, and once the template step
\* of an invocation has run exactly once; the circle draw calls use the
\* buffers the layer holds, which are the first ones created
TemplateOnce ==
    /\ created.vertexBuffer2 <= 1
    /\ created.indexBuffer2 <= 1
    /\ (allocated >= 1) =>
          /\ created.vertexBuffer2 = 1
          /\ created.indexBuffer2 = 1
          /\ "vertexBuffer2" \in DOMAIN layer
          /\ "indexBuffer2" \in DOMAIN layer
          /\ layer.vertexBuffer2.ref = BufferRef("layer", "vertexBuffer2", 1)
          /\ layer.indexBuffer2.ref = BufferRef("layer", "indexBuffer2", 1)
    /\ \A k \in DrawIndexes :
          draws[k].prim = "TRIANGLES" =>
              /\ draws[k].layoutVertexBuffer = BufferRef("layer", "vertexBuffer2", 1)
              /\ draws[k].indexBuffer = BufferRef("layer", "indexBuffer2", 1)

\* C6: each quad-template buffer is created once, by the first invocation,
\* and no step replaces or changes a buffer the layer has; every circle draw
\* call of every invocation uses those two buffers.
C6_TemplateCreatedOnce == []TemplateOnce /\ [][TemplateKept]_vars

\* a circle draw call of the second invocation
C6_Witness ==
    /\ frame = 2
    /\ \E k \in DrawIndexes : draws[k].prim = "TRIANGLES"

\* C7: when the quad template step is over, the index buffer holds 128
\* triangles; for every quad q in 0..63 triangle 2q is (4q, 4q+1, 4q+2) and
\* triangle 2q+1 is (4q+2, 4q+3, 4q), and every index is below 256.
C7_IndexBufferContents ==
    (pc = "circles" /\ i = 0) =>
        /\ "indexBuffer2" \in DOMAIN layer
        /\ LET a == layer.indexBuffer2.array
           IN  /\ DOMAIN a = 0..(128 * 3 - 1)
               /\ \A q \in 0..63 :
                     /\ <<a[6 * q], a[6 * q + 1], a[6 * q + 2]>>
                           = <<4 * q, 4 * q + 1, 4 * q + 2>>
                     /\ <<a[6 * q + 3], a[6 * q + 4], a[6 * q + 5]>>
                           = <<4 * q + 2, 4 * q + 3, 4 * q>>
               /\ \A k \in DOMAIN a : a[k] \in 0..255

\* the template step of the first invocation is over
C7_Witness ==
    /\ pc = "circles"
    /\ i = 0
    /\ frame = 1
    /\ created.indexBuffer2 = 1

\* the buffer set the mode selects, read off the bucket
SelectedAt(t) ==
    IF isText
    THEN Value(BucketAt(t)).textCollisionBox
    ELSE Value(BucketAt(t)).iconCollisionBox

\* C8: no invocation throws; a tile without a bucket has no draw call on
\* either path, a tile without the selected box buffers has no box draw
\* call, and a tile with an empty circle array has no circle draw call while
\* its box draw call, where it has the buffers, is issued.
C8_MissingDataIsSkipped ==
    /\ pc # "thrown"
    /\ \A t \in TileIndexes :
          /\ (BoxPassed(t) /\ ~HasBucket(t)) => BoxDraws(t) = <<>>
          /\ (CirclesPassed(t) /\ ~HasBucket(t)) => CircleDraws(t) = <<>>
          /\ (BoxPassed(t) /\ HasBucket(t) /\ SelectedAt(t) = Null) => BoxDraws(t) = <<>>
          /\ (CirclesPassed(t) /\ HasBucket(t) /\ CirclesAt(t).length = 0) =>
                /\ CircleDraws(t) = <<>>
                /\ (SelectedAt(t) # Null) => Len(BoxDraws(t)) = 1

\* an invocation is done with a tile without a bucket and a tile with an
\* empty circle array whose box was drawn
C8_Witness ==
    /\ Done
    /\ Len(coords) = 2
    /\ ~HasBucket(0)
    /\ HasBucket(1) /\ CirclesAt(1).length = 0
    /\ Len(draws) = 1
    /\ draws[1].prim = "LINES"

\* C9: the step of the circle loop for a tile with a bucket and no circle
\* goes on to the next tile and leaves the scratch array, the draw calls, the
\* count of matrix products and the transforms as they are.
C9_EmptyTileDoesNothing ==
    [][(pc = "circles" /\ i < Len(coords) /\ HasBucket(i) /\ CirclesAt(i).length = 0) =>
          /\ pc' = "circles"
          /\ i' = i + 1
          /\ UNCHANGED <<quadProperties, draws, reprojected, batchTransform,
                         batchInvTransform, copied>>]_vars

\* the circle loop is past a tile with circles and then a tile with none
C9_Witness ==
    /\ pc = "circles"
    /\ i = 2
    /\ HasBucket(0) /\ CirclesAt(0).length > 0
    /\ HasBucket(1) /\ CirclesAt(1).length = 0
    /\ quadProperties[0] # 0

\* the tiles among the first n of coords that have a bucket with the
\* selected buffer set, in coords order
RECURSIVE BoxTiles(_)
BoxTiles(n) ==
    IF n = 0
    THEN <<>>
    ELSE IF HasBucket(n - 1) /\ SelectedAt(n - 1) # Null
    THEN Append(BoxTiles(n - 1), n - 1)
    ELSE BoxTiles(n - 1)

\* C10: the box draw calls are, in coords order, one for each tile the box
\* loop is past that has a bucket with the buffer set isText selects; each
\* uses that buffer set's vertex, index and segment data, and coord.posMatrix
\* itself exactly when the translate is zero.
C10_BoxPath ==
    (pc \in {"box", "circles", "scan", "copy"}) =>
        LET lines == SelectSeq(draws, LAMBDA d : d.prim = "LINES")
            want == BoxTiles(IF pc = "box" THEN i ELSE Len(coords))
        IN  /\ Len(lines) = Len(want)
            /\ \A k \in 1..Len(lines) :
                  LET t == want[k]
                      b == Value(SelectedAt(t))
                  IN  /\ lines[k].tile = t
                      /\ lines[k].layoutVertexBuffer = b.layoutVertexBuffer
                      /\ lines[k].indexBuffer = b.indexBuffer
                      /\ lines[k].segments = b.segments
                      /\ lines[k].collisionVertexBuffer = Some(b.collisionVertexBuffer)
                      /\ (lines[k].matrix = coords[t + 1].posMatrix) <=> (translate = <<0, 0>>)

\* in icon mode, under a translate, one of two tiles has its box drawn
C10_Witness ==
    /\ Done
    /\ ~isText
    /\ translate # <<0, 0>>
    /\ Len(coords) = 2
    /\ Len(SelectSeq(draws, LAMBDA d : d.prim = "LINES")) = 1

\* C11 as stated: the draw calls are issued tile by tile, so no draw call of
\* a tile follows a draw call of a later tile, and within a tile the box draw
\* call comes before the circle draw calls.
C11_TileByTile ==
    \A k, l \in DrawIndexes :
        k < l =>
            /\ draws[k].tile <= draws[l].tile
            /\ (draws[k].tile = draws[l].tile /\ draws[l].prim = "LINES") =>
                  draws[k].prim = "LINES"

\* C11 amended: the box draw calls of all tiles are issued first, one per
\* tile at most and in coords order, by a loop of their own; the circle draw
\* calls follow, tile by tile in coords order, and by the first of them the
\* box draw call of every tile, the last one included, has been issued.
C11_BoxesThenCircles ==
    /\ \A k, l \in DrawIndexes :
          k < l =>
              /\ draws[k].prim = "TRIANGLES" => draws[l].prim = "TRIANGLES"
              /\ (draws[k].prim = "LINES" /\ draws[l].prim = "LINES") =>
                    draws[k].tile < draws[l].tile
              /\ (draws[k].prim = "TRIANGLES" /\ draws[l].prim = "TRIANGLES") =>
                    draws[k].tile <= draws[l].tile
    /\ (pc = "box") => \A k \in DrawIndexes : draws[k].prim = "LINES"
    /\ (\E k \in DrawIndexes : draws[k].prim = "TRIANGLES") =>
          Len(SelectSeq(draws, LAMBDA d : d.prim = "LINES")) = Len(BoxTiles(Len(coords)))

\* two tiles with boxes and circles are done: the box of the second tile was
\* drawn before the circles of the first
C11_Witness ==
    /\ Done
    /\ Len(coords) = 2
    /\ Len(draws) = 6
    /\ draws[2].prim = "LINES" /\ draws[2].tile = 1
    /\ draws[3].prim = "TRIANGLES" /\ draws[3].tile = 0
    /\ draws[6].prim = "TRIANGLES" /\ draws[6].tile = 1

\* C12 as stated: the scratch array of every circle draw call was written in
\* all of its 64 slots since the previous flush, from the array of the tile
\* the call is issued for.
C12_FullyOverwritten ==
    \A k \in DrawIndexes :
        draws[k].prim = "TRIANGLES" =>
            /\ draws[k].copied = 64
            /\ \A j \in 0..(QuadPropertiesLength - 1) :
                  IsFloatOf(draws[k].quadProperties[j], CirclesAt(draws[k].tile))

\* the scratch array as the circle draw call before draw call m of the
\* invocation passed it, or as it was allocated when m is the first
PayloadBefore(m) ==
    LET ps == {p \in 1..(m - 1) : draws[p].prim = "TRIANGLES"}
    IN  IF ps = {}
        THEN [j \in 0..(QuadPropertiesLength - 1) |-> 0]
        ELSE draws[CHOOSE p \in ps : \A r \in ps : r <= p].quadProperties

\* C12 amended: of the scratch array a circle draw call passes, the slots of
\* the quads it draws (the first batchQuadIdx) were written since the
\* previous flush from the array of the tile it is issued for; every slot
\* past them holds what the previous circle draw call of the invocation
\* passed there, be it of this tile or an earlier one, or the 0 of the fresh
\* array.
C12_DrawnRegionOverwritten ==
    \A m \in DrawIndexes :
        (BetweenBatches /\ draws[m].prim = "TRIANGLES") =>
            LET q == QuadsDrawn(draws[m])
                before == PayloadBefore(m)
            IN  /\ draws[m].copied = q
                /\ DOMAIN draws[m].quadProperties = 0..(QuadPropertiesLength - 1)
                /\ \A j \in 0..(q * 4 - 1) :
                      IsFloatOf(draws[m].quadProperties[j], CirclesAt(draws[m].tile))
                /\ \A j \in (q * 4)..(QuadPropertiesLength - 1) :
                      draws[m].quadProperties[j] = before[j]

\* the one circle of the second tile is drawn with a scratch array that
\* still holds circles of the first tile
C12_Witness ==
    /\ Done
    /\ Len(coords) = 2
    /\ HasBucket(0) /\ HasBucket(1)
    /\ \E m \in DrawIndexes :
          /\ draws[m].prim = "TRIANGLES"
          /\ draws[m].tile = 1
          /\ QuadsDrawn(draws[m]) = 1
          /\ IsFloatOf(draws[m].quadProperties[0], CirclesAt(1))
          /\ IsFloatOf(draws[m].quadProperties[4], CirclesAt(0))

\* C13 as stated: over the invocations on the layer no scratch array is
\* allocated after the first one, so the count of allocations stays at one
\* however many invocations there are.
C13_ScratchAllocatedOnce == allocated <= 1

\* the tiles with a non-empty circle array that the circle loop has begun
BegunWithCircles ==
    {t \in TileIndexes :
        /\ t < i \/ (t = i /\ pc \in {"scan", "copy"})
        /\ HasBucket(t)
        /\ CirclesAt(t).length > 0}

\* C14: the circle loop multiplies matrices twice, no more, for each tile
\* with a non-empty circle array it has begun, and not at all for the other
\* tiles; from before the tile's first circle draw call to its last,
\* batchInvTransform is (placementInvProjMatrix x glCoordMatrix) x
\* placementViewportMatrix of the tile's bucket, whatever the translate and
\* the mode, and that matrix is passed to every circle draw call of the tile.
C14_ReprojectedOncePerTile ==
    (pc \in {"circles", "scan", "copy"}) =>
        /\ reprojected = 2 * Cardinality(BegunWithCircles)
        /\ (pc \in {"scan", "copy"}) =>
              batchInvTransform =
                  Mat4Mul(Mat4Mul(Value(BucketAt(i)).placementInvProjMatrix,
                                  Transform.glCoordMatrix),
                          Value(BucketAt(i)).placementViewportMatrix)
        /\ (pc = "scan" /\ turns = 0) => CircleDraws(i) = <<>>
        /\ \A k \in DrawIndexes :
              draws[k].prim = "TRIANGLES" =>
                  LET bucket == Value(BucketAt(draws[k].tile))
                  IN  draws[k].invMatrix =
                          Mat4Mul(Mat4Mul(bucket.placementInvProjMatrix,
                                          Transform.glCoordMatrix),
                                  bucket.placementViewportMatrix)

\* two tiles of two batches each are done, under a translate: four products
\* were computed, and the factors of the second tile do not commute
C14_Witness ==
    /\ Done
    /\ translate # <<0, 0>>
    /\ Len(coords) = 2
    /\ Len(CircleDraws(0)) = 2
    /\ Len(CircleDraws(1)) = 2
    /\ reprojected = 4
    /\ CircleDraws(1)[1].invMatrix = CircleDraws(1)[2].invMatrix
    /\ CircleDraws(1)[1].invMatrix
          # Mat4Mul(Mat4Mul(Value(BucketAt(1)).placementViewportMatrix,
                            Transform.glCoordMatrix),
                    Value(BucketAt(1)).placementInvProjMatrix)

\* C15: from its call to its return an invocation leaves its inputs as they
\* are: no step changes coords and their posMatrix, a bucket's circle array
\* (length and floats), placementInvProjMatrix or placementViewportMatrix,
\* the camera's glCoordMatrix, the translate, its anchor or the mode.
C15_InputsUnchanged ==
    [][(pc # "idle" /\ pc' # "idle") =>
          /\ coords' = coords
          /\ sourceCache' = sourceCache
          /\ painter' = painter
          /\ <<translate, translateAnchor, isText>>' = <<translate, translateAnchor, isText>>]_vars

\* under a translate, a tile with boxes and 65 circles is done and its
\* array and matrices are the caller's
C15_Witness ==
    /\ Done
    /\ translate # <<0, 0>>
    /\ Len(coords) = 1
    /\ HasBucket(0)
    /\ Len(draws) = 3
    /\ CirclesAt(0) = CollisionCircleArray(1, 65)
    /\ BucketAt(0) = Some(SymbolBucket(1, TRUE, TRUE, 65))
    /\ painter.transform = Transform
    /\ coords = Coords(1)

\* C16: every turn of the scan loop copies at least one circle and moves
\* quadOffset up, never past the length of the array, so that the loop is
\* left with quadOffset equal to that length; and every invocation returns.
C16_InvocationTerminates ==
    /\ []((pc = "copy") => batchSize >= 1)
    /\ []((pc \in {"scan", "copy"}) => quadOffset <= Arr.length)
    /\ [][(pc = "copy" /\ pc' = "scan") =>
            /\ quadOffset' > quadOffset
            /\ copied' + (IF BatchFull THEN maxQuadsPerDrawCall ELSE 0) >= copied
            /\ qIdx >= quadOffset + 1]_vars
    /\ [][(pc = "scan" /\ pc' = "circles") => quadOffset = Arr.length]_vars
    /\ [](pc # "idle" => <>(pc = "idle"))

\* the scan loop of a tile of 130 circles is left after three turns
C16_Witness ==
    /\ pc = "circles"
    /\ i = 1
    /\ HasBucket(0)
    /\ CirclesAt(0).length = 130
    /\ quadOffset = 130
    /\ turns = 3

\* C17: a turn of the scan loop starts with batchQuadIdx = 0 and quadOffset
\* at 64 times the number of turns taken, so the batch it fills has room for
\* 64 circles and takes min(64, circles left); after each turn either a full
\* batch was flushed in it or no circle is left; the loop is left after
\* ceil(n / 64) turns.
C17_ScanTurns ==
    /\ (pc = "scan" /\ quadOffset < Arr.length) =>
          /\ batchQuadIdx = 0
          /\ quadOffset = 64 * turns
          /\ maxQuadsPerDrawCall - batchQuadIdx = 64
    /\ (pc = "copy") =>
          /\ batchSize = Min(Arr.length - quadOffset, 64)
          /\ quadOffset = 64 * (turns - 1)
          /\ batchQuadIdx = qIdx - quadOffset
    /\ (pc = "scan" /\ turns >= 1) =>
          \/ /\ batchQuadIdx = 0
             /\ Len(CircleDraws(i)) = turns
             /\ CircleDraws(i)[turns].site = "full"
          \/ /\ quadOffset = Arr.length
             /\ Len(CircleDraws(i)) = turns - 1
    /\ (pc = "scan" /\ quadOffset >= Arr.length) => turns = CeilDiv(Arr.length, 64)

\* the third turn of the scan of 130 circles is about to start
C17_Witness ==
    /\ pc = "scan"
    /\ Arr.length = 130
    /\ quadOffset = 128
    /\ batchQuadIdx = 0
    /\ turns = 2

\* C18 as stated: every store of the index loop, for each of its iterations
\* and each of the six offsets, is made at a position inside the index
\* array, below 128 * 3 = 384.
C18_IndexWritesInside ==
    ("indexBuffer2" \in DOMAIN layer) =>
        \A n \in 0..(maxTrianglesPerDrawCall - 1) :
            \A k \in 1..Len(IndexStores(n)) :
                /\ IndexStores(n)[k][1] \in DOMAIN layer.indexBuffer2.array
                /\ IndexStores(n)[k][1] < 128 * 3

\* the circle draw calls that the circle array and the matrices of tile t
\* call for: one for every 64 circles begun, with the circles in array order
ExpectedBatches(t) ==
    LET bucket == Value(BucketAt(t))
        arr == bucket.collisionCircleArrayTemp
    IN  [k \in 1..CeilDiv(arr.length, 64) |->
            LET q == Min(64, arr.length - 64 * (k - 1))
            IN  [tile |-> t,
                 quads |-> q,
                 floats |-> [j \in 0..(q * 4 - 1) |-> arr.float32[256 * (k - 1) + j]],
                 matrix |-> TilePosMatrix(coords[t + 1]),
                 invMatrix |-> InvTransformOf(bucket)]]

\* those of the first n tiles, in coords order
RECURSIVE ExpectedCircleDraws(_)
ExpectedCircleDraws(n) ==
    IF n = 0
    THEN <<>>
    ELSE ExpectedCircleDraws(n - 1)
         \o (IF HasBucket(n - 1) THEN ExpectedBatches(n - 1) ELSE <<>>)

\* what a circle draw call draws
Drawn(d) ==
    [tile |-> d.tile,
     quads |-> QuadsDrawn(d),
     floats |-> [j \in 0..(QuadsDrawn(d) * 4 - 1) |-> d.quadProperties[j]],
     matrix |-> d.matrix,
     invMatrix |-> d.invMatrix]

\* C19: the circle draw calls issued by the time the circle loop is past n
\* tiles (their number, sizes, contents and matrices) are a function of the
\* tiles' circle arrays and matrices, the translate and the camera alone:
\* the same for isText true and false, and with or without textCollisionBox
\* and iconCollisionBox in a bucket.
C19_CirclesIndependentOfBoxes ==
    (pc = "circles") =>
        LET ds == SelectSeq(draws, LAMBDA d : d.prim = "TRIANGLES")
        IN  [k \in 1..Len(ds) |-> Drawn(ds[k])] = ExpectedCircleDraws(i)

\* in text mode a tile whose bucket has no text boxes has its circle drawn,
\* and no box
C19_Witness ==
    /\ Done
    /\ isText
    /\ Len(coords) = 1
    /\ HasBucket(0)
    /\ Value(BucketAt(0)).textCollisionBox = Null
    /\ Value(BucketAt(0)).iconCollisionBox # Null
    /\ Len(draws) = 1
    /\ draws[1].prim = "TRIANGLES"

====
